---------------------------- MODULE Spec2Model ----------------------------
(***************************************************************************)
(* rssterm: the concurrent feed acquisition pipeline (FeedWidget::run in   *)
(* src/src/app.rs) and the debounced terminal event stream                 *)
(* (RateLimitedEventStream in src/src/stream.rs), and the table and        *)
(* expanded views of FeedWidget driven by the select! loop of App::run.    *)
(*                                                                         *)
(* Rust's Option<T> is modelled as a sequence of length at most one:       *)
(* None is <<>> and Some(x) is <<x>>.                                      *)
(***************************************************************************)
EXTENDS Integers, Sequences, FiniteSets, TLC

(***************************************************************************)
(* Bounds of the model.                                                    *)
(***************************************************************************)
\* largest number of configured feed URLs
MaxSources == 3
\* number of terminal events the upstream EventStream delivers in one run
MaxEvents == 3

\* self.delay: the 15 ms of app.rs:115, counted in clock ticks of 7.5 ms
DelayTicks == 2
\* the clock stops counting at MaxTime: a time stamp below MaxTime is exact,
\* the time stamp MaxTime says "at MaxTime or later"
MaxTime == DelayTicks + 1

None == <<>>
Some(x) == <<x>>
IsSome(o) == Len(o) = 1
Unwrap(o) == o[1]

Range(s) == {s[i] : i \in 1..Len(s)}

(***************************************************************************)
(* Part 1.  Feed acquisition: FeedWidget::run, the join loop and the       *)
(* shared entry list behind the RwLock.                                    *)
(***************************************************************************)

VARIABLES
    show_help,      \* FeedWidget.show_help
    feed_started,   \* FeedWidget::run has been called
    nsrc,           \* chan_urls.len()
    task,           \* state of each fetch task of the JoinSet
    result,         \* output of each fetch task
    completed,      \* fetch tasks that finished, in completion order, not yet joined
    items,          \* FeedWidgetData.items
    loading_count,  \* FeedWidget.loading_count (AtomicUsize)
    rw_writer,      \* data: a write guard exists
    rw_readers,     \* data: number of read guards
    loop_pc,        \* position of the task spawned at app.rs:294
    new_items,      \* the local new_items of the join loop
    render_pc       \* position of FeedWidget::render between lock and return

VARIABLES
    now,            \* history: a clock, in ticks, that stops at MaxTime
    timer,          \* RateLimitedEventStream._timer: ticks left of the Sleep
    pending_event,  \* RateLimitedEventStream.pending_event
    can_emit,       \* RateLimitedEventStream.can_emit
    inner,          \* events the EventStream holds ready, oldest first
    inner_ended,    \* the EventStream has no more events to deliver
    narrived,       \* number of events that reached the EventStream so far
    poll_pc,        \* position inside poll_next
    ret,            \* what the last poll_next call returned
    emitted,        \* every event poll_next returned so far, in order
    last_coal_read  \* history: the last Up/Down key event poll_next read

VARIABLES
    tb_selected,    \* FeedWidget.tb_state.selected()
    tb_cum_row_heights, \* FeedWidget.tb_cum_row_heights
    sb_position,    \* FeedWidget.sb_state: position
    sb_content_length,  \* FeedWidget.sb_state: content_length
    exp_id,         \* ExpandedItemWidget.id
    cached_render_content,  \* ExpandedItemWidget.cached_render_content
    curr_content_render_width,  \* ExpandedItemWidget.curr_content_render_width
    curr_content_render_height, \* ExpandedItemWidget.curr_content_render_height
    scroll_offset,  \* ExpandedItemWidget.scroll_offset
    exp_sb_position,    \* ExpandedItemWidget.sb_state: position
    should_quit,    \* App.should_quit
    app_event_chan, \* the mpsc channel of capacity 1 behind app_event_tx/rx
    main_pc,        \* position of the task running App::run
    last_op,        \* history: the handler or render that ran last
    shown,          \* history: the row the last frame showed highlighted
    raw_mode,       \* the terminal is in raw mode
    alt_screen,     \* the terminal shows the alternate screen
    panic_hook,     \* the hook that restores the terminal is installed
    feeds_file,     \* the feeds file as App::run finds it
    feed_urls       \* the local feed_urls of App::run

fetchVars == <<show_help, feed_started, nsrc, task, result, completed, items,
               loading_count, rw_writer, rw_readers, loop_pc, new_items,
               render_pc>>
streamVars == <<now, timer, pending_event, can_emit, inner, inner_ended,
                narrived, poll_pc, ret, emitted, last_coal_read>>
tableVars == <<tb_selected, tb_cum_row_heights, sb_position,
               sb_content_length>>
expVars == <<exp_id, cached_render_content, curr_content_render_width,
             curr_content_render_height, scroll_offset, exp_sb_position>>
loopVars == <<should_quit, app_event_chan, main_pc>>
mainVars == <<raw_mode, alt_screen, panic_hook, feeds_file, feed_urls>>
uiVars == <<tableVars, expVars, loopVars, last_op, shown, mainVars>>
vars == <<fetchVars, streamVars, uiVars>>

Sources == 1..MaxSources

\* usize arithmetic wraps; the width is scaled down to 16 bits
UsizeModulus == 2 ^ 16
WrappingSub(a, b) == (a - b + UsizeModulus) % UsizeModulus

(***************************************************************************)
(* Feed documents.  A raw item carries the value DefaultHasher::finish     *)
(* returns for its hashed fields and its publication date field.           *)
(***************************************************************************)
Missing == [tag |-> "missing", value |-> 0]
Malformed == [tag |-> "malformed", value |-> 0]
Rfc2822(d) == [tag |-> "rfc2822", value |-> d]
RawItem(h, d) == [hash |-> h, pub_date |-> d]

\* DateTime::parse_from_rfc2822(item.pub_date()?).ok()?
ParsePubDate(raw_date) ==
    IF raw_date.tag = "rfc2822" THEN Some(raw_date.value) ELSE None

\* NonZero::new(hasher.finish()): None when the hash is zero
NonZeroNew(h) == IF h = 0 THEN None ELSE Some(h)

\* .unwrap() on the id panics
ItemPanics(raw) == ~IsSome(NonZeroNew(raw.hash))

\* FeedItem::from_rss_item / from_atom_entry for an item that does not panic:
\* the id is evaluated first, then the `?` on the publication date
FromRawItem(raw) ==
    IF IsSome(ParsePubDate(raw.pub_date))
    THEN Some([id |-> Unwrap(NonZeroNew(raw.hash)),
               pub_date |-> Unwrap(ParsePubDate(raw.pub_date))])
    ELSE None

RECURSIVE FilterMapItems(_)
\* .iter().filter_map(FeedItem::from_...).collect()
FilterMapItems(raws) ==
    IF raws = <<>> THEN <<>>
    ELSE FromRawItem(Head(raws)) \o FilterMapItems(Tail(raws))

FeedPanics(raws) == \E i \in 1..Len(raws) : ItemPanics(raws[i])

\* the results a fetch task can end with
NetErr == [tag |-> "NetErr", items |-> <<>>]
DecodeErr == [tag |-> "DecodeErr", items |-> <<>>]
JoinErr == [tag |-> "JoinErr", items |-> <<>>]
Rss(raws) == [tag |-> "Rss", items |-> raws]
Atom(raws) == [tag |-> "Atom", items |-> raws]
NoResult == [tag |-> "NoResult", items |-> <<>>]

FiveValid == Rss(<<RawItem(1, Rfc2822(3)), RawItem(2, Rfc2822(1)),
                   RawItem(3, Rfc2822(2)), RawItem(1, Rfc2822(2)),
                   RawItem(2, Rfc2822(3))>>)
OneUndated == Rss(<<RawItem(3, Missing)>>)
Mixed == Rss(<<RawItem(1, Rfc2822(2)), RawItem(2, Malformed),
               RawItem(3, Rfc2822(1))>>)
AtomTwo == Atom(<<RawItem(2, Rfc2822(2)), RawItem(3, Rfc2822(3))>>)
ZeroHash == Rss(<<RawItem(1, Rfc2822(1)), RawItem(0, Rfc2822(2))>>)

Outcomes == {NetErr, DecodeErr, JoinErr,
             FiveValid, OneUndated, Mixed, AtomTwo, ZeroHash}

IsFeed(r) == r.tag \in {"Rss", "Atom"}

(***************************************************************************)
(* data.items.sort_by(|a, b| b.pub_date.cmp(&a.pub_date)): a stable sort,  *)
(* newest first.                                                           *)
(***************************************************************************)
RECURSIVE InsertStable(_, _)
InsertStable(sorted, x) ==
    IF sorted = <<>> THEN <<x>>
    ELSE IF Head(sorted).pub_date >= x.pub_date
         THEN <<Head(sorted)>> \o InsertStable(Tail(sorted), x)
         ELSE <<x>> \o sorted

\* mutant: the sort after the append is left out
NoSort(s) == s

RECURSIVE SortByPubDateDesc(_)
SortByPubDateDesc(s) ==
    IF s = <<>> THEN <<>>
    ELSE InsertStable(SortByPubDateDesc(SubSeq(s, 1, Len(s) - 1)), s[Len(s)])

\* data.items.extend(new_items)
Extend(s, t) == s \o t

InitFetch ==
    /\ show_help = FALSE
    /\ feed_started = FALSE
    /\ nsrc = 0
    /\ task = [s \in Sources |-> "none"]
    /\ result = [s \in Sources |-> NoResult]
    /\ completed = <<>>
    /\ items = <<>>
    /\ loading_count = 0
    /\ rw_writer = FALSE
    /\ rw_readers = 0
    /\ loop_pc = "idle"
    /\ new_items = <<>>
    /\ render_pc = "idle"

\* FeedWidget::run without the early return for an empty list
FeedRunNoEarlyReturn(n) ==
    /\ ~feed_started
    /\ feed_started' = TRUE
    /\ nsrc' = n
    /\ loading_count' = n
    /\ loop_pc' = "spawn"
    /\ UNCHANGED show_help
    /\ UNCHANGED <<streamVars, uiVars, render_pc>>
    /\ UNCHANGED <<task, result, completed, items, rw_writer, rw_readers,
                   new_items>>

\* FeedWidget::run(chan_urls) up to the tokio::spawn
FeedRun(n) ==
    /\ ~feed_started
    /\ feed_started' = TRUE
    /\ nsrc' = n
    /\ IF n = 0
       THEN /\ show_help' = TRUE
            /\ UNCHANGED <<loading_count, loop_pc>>
       ELSE /\ loading_count' = n
            /\ loop_pc' = "spawn"
            /\ UNCHANGED show_help
    /\ UNCHANGED <<streamVars, uiVars, render_pc>>
    /\ UNCHANGED <<task, result, completed, items, rw_writer, rw_readers,
                   new_items>>

\* the spawned task starts: one query_set.spawn per URL
LoopSpawn ==
    /\ loop_pc = "spawn"
    /\ task' = [s \in Sources |-> IF s <= nsrc THEN "running" ELSE "none"]
    /\ loop_pc' = "join"
    /\ UNCHANGED <<streamVars, uiVars, render_pc>>
    /\ UNCHANGED <<show_help, feed_started, nsrc, result, completed, items,
                   loading_count, rw_writer, rw_readers, new_items>>

\* a fetch task ends with a response, an error or a panic
FetchComplete(s, r) ==
    /\ task[s] = "running"
    /\ task' = [task EXCEPT ![s] = "done"]
    /\ result' = [result EXCEPT ![s] = r]
    /\ completed' = Append(completed, s)
    /\ UNCHANGED <<streamVars, uiVars, render_pc>>
    /\ UNCHANGED <<show_help, feed_started, nsrc, items, loading_count,
                   rw_writer, rw_readers, loop_pc, new_items>>

\* the position the join loop takes after join_next() yields r
AfterJoin(r) ==
    IF IsFeed(r)
    THEN IF FeedPanics(r.items) THEN "panicked" ELSE "lock"
    ELSE "dec"

\* mutant: the counter is decremented as soon as the result is joined,
\* before the merge
LoopJoinDecFirst ==
    /\ loop_pc = "join"
    /\ completed # <<>>
    /\ LET s == Head(completed)
           r == result[s]
           next == AfterJoin(r)
       IN /\ loop_pc' = IF next = "dec" THEN "join" ELSE next
          /\ completed' = Tail(completed)
          /\ new_items' = IF next = "lock" THEN FilterMapItems(r.items) ELSE <<>>
          /\ task' = [t \in Sources |->
                        IF t = s THEN "joined"
                        ELSE IF next = "panicked" /\ task[t] = "running"
                             THEN "aborted"
                             ELSE task[t]]
    /\ loading_count' = WrappingSub(loading_count, 1)
    /\ UNCHANGED <<streamVars, uiVars, render_pc>>
    /\ UNCHANGED <<show_help, feed_started, nsrc, result, items,
                   rw_writer, rw_readers>>

\* query_set.join_next().await yields the oldest finished task; a feed is
\* converted to new_items, which panics on an item whose hash is zero and
\* drops the JoinSet, aborting the tasks still running
LoopJoin ==
    /\ loop_pc = "join"
    /\ completed # <<>>
    /\ LET s == Head(completed)
           r == result[s]
           next == AfterJoin(r)
       IN /\ loop_pc' = next
          /\ completed' = Tail(completed)
          /\ new_items' = IF next = "lock" THEN FilterMapItems(r.items) ELSE <<>>
          /\ task' = [t \in Sources |->
                        IF t = s THEN "joined"
                        ELSE IF next = "panicked" /\ task[t] = "running"
                             THEN "aborted"
                             ELSE task[t]]
    /\ UNCHANGED <<streamVars, uiVars, render_pc>>
    /\ UNCHANGED <<show_help, feed_started, nsrc, result, items,
                   loading_count, rw_writer, rw_readers>>

\* data.write().unwrap()
LoopWriteLock ==
    /\ loop_pc = "lock"
    /\ ~rw_writer
    /\ rw_readers = 0
    /\ rw_writer' = TRUE
    /\ loop_pc' = "extend"
    /\ UNCHANGED <<streamVars, uiVars, render_pc>>
    /\ UNCHANGED <<show_help, feed_started, nsrc, task, result, completed,
                   items, loading_count, rw_readers, new_items>>

\* data.items.extend(new_items)
LoopExtend ==
    /\ loop_pc = "extend"
    /\ items' = Extend(items, new_items)
    /\ new_items' = <<>>
    /\ loop_pc' = "sort"
    /\ UNCHANGED <<streamVars, uiVars, render_pc>>
    /\ UNCHANGED <<show_help, feed_started, nsrc, task, result, completed,
                   loading_count, rw_writer, rw_readers>>

\* data.items.sort_by(..), then the write guard is dropped
LoopSort ==
    /\ loop_pc = "sort"
    /\ items' = SortByPubDateDesc(items)
    /\ rw_writer' = FALSE
    /\ loop_pc' = "dec"
    /\ UNCHANGED <<streamVars, uiVars, render_pc>>
    /\ UNCHANGED <<show_help, feed_started, nsrc, task, result, completed,
                   loading_count, rw_readers, new_items>>

\* loading_count.fetch_sub(1, Ordering::SeqCst)
LoopDec ==
    /\ loop_pc = "dec"
    /\ loading_count' = WrappingSub(loading_count, 1)
    /\ loop_pc' = "join"
    /\ UNCHANGED <<streamVars, uiVars, render_pc>>
    /\ UNCHANGED <<show_help, feed_started, nsrc, task, result, completed,
                   items, rw_writer, rw_readers, new_items>>

\* join_next() yields None: the JoinSet is empty
LoopEnd ==
    /\ loop_pc = "join"
    /\ \A s \in Sources : task[s] \in {"none", "joined"}
    /\ loop_pc' = "done"
    /\ UNCHANGED <<streamVars, uiVars, render_pc>>
    /\ UNCHANGED <<show_help, feed_started, nsrc, task, result, completed,
                   items, loading_count, rw_writer, rw_readers, new_items>>

\* FeedWidget::render takes the read guard: self.data.read().unwrap().  The
\* guard is a temporary of the let statement that borrows `items` from it,
\* so it lives until render returns.
ReadLock ==
    /\ feed_started
    /\ ~show_help
    /\ render_pc = "idle"
    /\ ~rw_writer
    /\ rw_readers = 0
    /\ rw_readers' = 1
    /\ render_pc' = "layout"
    /\ UNCHANGED <<streamVars, uiVars>>
    /\ UNCHANGED <<show_help, feed_started, nsrc, task, result, completed,
                   items, loading_count, rw_writer, loop_pc, new_items>>

\* render wraps every row, sets its height and fills tb_cum_row_heights
RenderLayout ==
    /\ render_pc = "layout"
    /\ render_pc' = "draw"
    /\ UNCHANGED <<streamVars, uiVars>>
    /\ UNCHANGED <<show_help, feed_started, nsrc, task, result, completed,
                   items, loading_count, rw_writer, rw_readers, loop_pc,
                   new_items>>

\* the widgets are drawn and render returns, which drops the read guard
ReadUnlock ==
    /\ render_pc = "draw"
    /\ rw_readers = 1
    /\ rw_readers' = 0
    /\ render_pc' = "idle"
    /\ UNCHANGED <<streamVars, uiVars>>
    /\ UNCHANGED <<show_help, feed_started, nsrc, task, result, completed,
                   items, loading_count, rw_writer, loop_pc, new_items>>

\* FeedWidget::is_loading
is_loading == loading_count > 0

NextFetch ==
    \/ \E n \in 0..MaxSources : FeedRun(n)
    \/ LoopSpawn
    \/ \E s \in Sources : \E r \in Outcomes : FetchComplete(s, r)
    \/ LoopJoin
    \/ LoopWriteLock
    \/ LoopExtend
    \/ LoopSort
    \/ LoopDec
    \/ LoopEnd
    \/ ReadLock
    \/ RenderLayout
    \/ ReadUnlock

(***************************************************************************)
(* Part 2.  RateLimitedEventStream (src/src/stream.rs): a leading and      *)
(* trailing debouncer over the crossterm EventStream.                      *)
(*                                                                         *)
(* An event is a record [id, kind, at]: kind is the io::Result<Event> the  *)
(* EventStream yields, id numbers the events in arrival order and at is    *)
(* the clock value at which the event reached the EventStream.  An event   *)
(* poll_next has read also carries read_at, the clock value of the read.   *)
(***************************************************************************)
KeyEv(code) == [ok |-> TRUE, class |-> "Key", code |-> code]
IoErr == [ok |-> FALSE, class |-> "Err", code |-> ""]
EventKinds == {KeyEv("Up"), KeyEv("Down"), KeyEv("Enter"), IoErr}

Pending == [poll |-> "Pending", item |-> None]
Ready(item) == [poll |-> "Ready", item |-> item]

\* mutant: every key event is rate limited, whatever its code
should_rate_limit_any_key(event) ==
    /\ event.kind.ok
    /\ event.kind.class = "Key"

\* RateLimitedEventStream::should_rate_limit
should_rate_limit(event) ==
    /\ event.kind.ok
    /\ event.kind.class = "Key"
    /\ event.kind.code \in {"Up", "Down"}

\* mutant: start_timer stores no timer
StartTimerNone == None

\* mutant: the timer is started one tick short of the delay
StartTimerShort == Some(DelayTicks - 1)

\* tokio::time::sleep(self.delay), boxed into _timer
StartTimer == Some(DelayTicks)

\* mutant: remove_timer leaves the completed timer in place
RemoveTimerKeep == timer

\* RateLimitedEventStream::remove_timer
RemoveTimer == None

\* timer.as_mut().poll(cx).is_ready()
TimerReady == IsSome(timer) /\ Unwrap(timer) = 0

\* mutant: an event already pending is kept, the newer one is dropped
StorePendingKeepFirst(old, event) == IF IsSome(old) THEN old ELSE Some(event)

\* self.pending_event = Some(event)
StorePending(old, event) == Some(event)

\* RateLimitedEventStream::new
NewStream ==
    /\ timer = None
    /\ pending_event = None
    /\ can_emit = TRUE
    /\ inner = <<>>
    /\ inner_ended = FALSE
    /\ narrived = 0
    /\ poll_pc = "idle"
    /\ ret = Pending
    /\ emitted = <<>>
    /\ last_coal_read = None

\* the stream with the clock already stopped: no time stamp is exact
InitStream == NewStream /\ now = MaxTime

\* the stream observed from the instant 0 on
InitStreamClock == NewStream /\ now = 0

\* time passes: the clock advances and a running Sleep gets closer to its
\* deadline
Tick ==
    /\ now < MaxTime \/ (IsSome(timer) /\ Unwrap(timer) > 0)
    /\ now' = IF now < MaxTime THEN now + 1 ELSE now
    /\ timer' = IF IsSome(timer) /\ Unwrap(timer) > 0
                THEN Some(Unwrap(timer) - 1) ELSE timer
    /\ UNCHANGED <<fetchVars, uiVars, last_coal_read>>
    /\ UNCHANGED <<pending_event, can_emit, inner, inner_ended, narrived,
                   poll_pc, ret, emitted>>

\* the terminal delivers an event to the EventStream
Arrive(k) ==
    /\ narrived < MaxEvents
    /\ ~inner_ended
    /\ narrived' = narrived + 1
    /\ inner' = Append(inner, [id |-> narrived + 1, kind |-> k, at |-> now])
    /\ UNCHANGED <<fetchVars, uiVars, last_coal_read>>
    /\ UNCHANGED <<now, timer, pending_event, can_emit, inner_ended, poll_pc,
                   ret, emitted>>

\* the EventStream is exhausted
UpstreamEnd ==
    /\ ~inner_ended
    /\ inner_ended' = TRUE
    /\ UNCHANGED <<fetchVars, uiVars, last_coal_read>>
    /\ UNCHANGED <<now, timer, pending_event, can_emit, inner, narrived,
                   poll_pc, ret, emitted>>

\* the event self._inner.poll_next(cx) yields now, stamped with the instant
\* at which it is read
TakeHead == [id |-> Head(inner).id, kind |-> Head(inner).kind,
             at |-> Head(inner).at, read_at |-> now]

\* poll_next returns Poll::Ready(Some(event))
ReturnEvent(event) ==
    /\ ret' = Ready(Some(event))
    /\ emitted' = Append(emitted, event)
    /\ poll_pc' = "idle"

\* mutant: the completed timer clears the pending event without returning it
PollTimerFlushDrop ==
    /\ poll_pc = "idle"
    /\ IsSome(timer) /\ Unwrap(timer) = 0
    /\ IsSome(pending_event)
    /\ pending_event' = None
    /\ can_emit' = TRUE
    /\ timer' = None
    /\ poll_pc' = "loop"
    /\ UNCHANGED <<fetchVars, uiVars, last_coal_read>>
    /\ UNCHANGED <<now, inner, inner_ended, narrived, ret, emitted>>

\* poll_next, stream.rs:55-64: the timer has completed and an event is
\* pending
PollTimerFlush ==
    /\ poll_pc = "idle"
    /\ TimerReady
    /\ IsSome(pending_event)
    /\ pending_event' = None
    /\ can_emit' = FALSE
    /\ timer' = StartTimer
    /\ ReturnEvent(Unwrap(pending_event))
    /\ UNCHANGED <<fetchVars, uiVars, last_coal_read>>
    /\ UNCHANGED <<now, inner, inner_ended, narrived>>

\* poll_next, stream.rs:55-66: the timer has completed and nothing is pending
PollTimerOpen ==
    /\ poll_pc = "idle"
    /\ TimerReady
    /\ ~IsSome(pending_event)
    /\ timer' = RemoveTimer
    /\ can_emit' = TRUE
    /\ poll_pc' = "loop"
    /\ UNCHANGED <<fetchVars, uiVars, last_coal_read>>
    /\ UNCHANGED <<now, pending_event, inner, inner_ended, narrived, ret,
                   emitted>>

\* poll_next, stream.rs:55-56: no timer, or the timer is still running
PollTimerIdle ==
    /\ poll_pc = "idle"
    /\ ~TimerReady
    /\ poll_pc' = "loop"
    /\ UNCHANGED <<fetchVars, uiVars, last_coal_read>>
    /\ UNCHANGED <<now, timer, pending_event, can_emit, inner, inner_ended,
                   narrived, ret, emitted>>

\* mutant: a rate limited event is returned whatever can_emit says
PollReadLeadingAlways ==
    /\ poll_pc = "loop"
    /\ inner # <<>>
    /\ should_rate_limit(Head(inner))
    /\ inner' = Tail(inner)
    /\ last_coal_read' = Some(TakeHead)
    /\ can_emit' = FALSE
    /\ timer' = StartTimer
    /\ ReturnEvent(TakeHead)
    /\ UNCHANGED <<fetchVars, uiVars>>
    /\ UNCHANGED <<now, pending_event, inner_ended, narrived>>

\* poll_next, stream.rs:70-77: a rate limited event is read while can_emit
PollReadLeading ==
    /\ poll_pc = "loop"
    /\ inner # <<>>
    /\ should_rate_limit(Head(inner))
    /\ can_emit
    /\ inner' = Tail(inner)
    /\ last_coal_read' = Some(TakeHead)
    /\ can_emit' = FALSE
    /\ timer' = StartTimer
    /\ ReturnEvent(TakeHead)
    /\ UNCHANGED <<fetchVars, uiVars>>
    /\ UNCHANGED <<now, pending_event, inner_ended, narrived>>

\* poll_next, stream.rs:78-82: a rate limited event is read while ~can_emit;
\* the loop goes on
PollReadBuffer ==
    /\ poll_pc = "loop"
    /\ inner # <<>>
    /\ should_rate_limit(Head(inner))
    /\ ~can_emit
    /\ inner' = Tail(inner)
    /\ last_coal_read' = Some(TakeHead)
    /\ pending_event' = StorePending(pending_event, TakeHead)
    /\ UNCHANGED <<fetchVars, uiVars>>
    /\ UNCHANGED <<now, timer, can_emit, inner_ended, narrived, poll_pc, ret,
                   emitted>>

\* poll_next, stream.rs:84-85: any other event passes through
PollReadPass ==
    /\ poll_pc = "loop"
    /\ inner # <<>>
    /\ ~should_rate_limit(Head(inner))
    /\ inner' = Tail(inner)
    /\ ReturnEvent(TakeHead)
    /\ UNCHANGED <<fetchVars, uiVars, last_coal_read>>
    /\ UNCHANGED <<now, timer, pending_event, can_emit, inner_ended,
                   narrived>>

\* mutant: at the end of the EventStream the pending event is discarded and
\* the end is reported at once
PollEndFlushDrop ==
    /\ poll_pc = "loop"
    /\ inner = <<>>
    /\ inner_ended
    /\ IsSome(pending_event)
    /\ pending_event' = None
    /\ ret' = Ready(None)
    /\ poll_pc' = "idle"
    /\ UNCHANGED <<fetchVars, uiVars, last_coal_read>>
    /\ UNCHANGED <<now, timer, can_emit, inner, inner_ended, narrived,
                   emitted>>

\* poll_next, stream.rs:88-90: the EventStream ended and an event is pending
PollEndFlush ==
    /\ poll_pc = "loop"
    /\ inner = <<>>
    /\ inner_ended
    /\ IsSome(pending_event)
    /\ pending_event' = None
    /\ ReturnEvent(Unwrap(pending_event))
    /\ UNCHANGED <<fetchVars, uiVars, last_coal_read>>
    /\ UNCHANGED <<now, timer, can_emit, inner, inner_ended, narrived>>

\* poll_next, stream.rs:91-93: the EventStream ended, nothing pending
PollEnd ==
    /\ poll_pc = "loop"
    /\ inner = <<>>
    /\ inner_ended
    /\ ~IsSome(pending_event)
    /\ ret' = Ready(None)
    /\ poll_pc' = "idle"
    /\ UNCHANGED <<fetchVars, uiVars, last_coal_read>>
    /\ UNCHANGED <<now, timer, pending_event, can_emit, inner, inner_ended,
                   narrived, emitted>>

\* poll_next, stream.rs:95-98: the EventStream has nothing ready
PollPending ==
    /\ poll_pc = "loop"
    /\ inner = <<>>
    /\ ~inner_ended
    /\ ret' = Pending
    /\ poll_pc' = "idle"
    /\ UNCHANGED <<fetchVars, uiVars, last_coal_read>>
    /\ UNCHANGED <<now, timer, pending_event, can_emit, inner, inner_ended,
                   narrived, emitted>>

\* one step of RateLimitedEventStream::poll_next
PollNext ==
    \/ PollTimerFlush
    \/ PollTimerOpen
    \/ PollTimerIdle
    \/ PollReadLeading
    \/ PollReadBuffer
    \/ PollReadPass
    \/ PollEndFlush
    \/ PollEnd
    \/ PollPending

NextStream ==
    \/ Tick
    \/ \E k \in EventKinds : Arrive(k)
    \/ UpstreamEnd
    \/ PollNext

(***************************************************************************)
(* Part 3.  The views of FeedWidget and the select! loop of App::run.      *)
(*                                                                         *)
(* The entry list is the `items` of Part 1; here a fetch task merges a     *)
(* feed in one step (write guard, extend, sort, guard dropped), which is   *)
(* all the render loop can observe of a merge.  A text is modelled by its  *)
(* length in columns, a wrapped line by the text it was cut from and its   *)
(* number within that text.  The fields of a FeedItem other than id and    *)
(* pub_date are looked up by id.                                           *)
(***************************************************************************)
\* largest selected index a run of scroll_down_by without a render builds up
MaxSelected == 5

UsizeMax == UsizeModulus - 1
ISizeMin == 0 - (UsizeModulus \div 2)
ISizeMax == (UsizeModulus \div 2) - 1

SaturatingSub(a, b) == IF a >= b THEN a - b ELSE 0
SaturatingAdd(a, b) == IF a + b > UsizeMax THEN UsizeMax ELSE a + b

\* the feeds the fetch tasks of this part deliver
FeedOne == Rss(<<RawItem(1, Rfc2822(2))>>)
FeedTwo == Rss(<<RawItem(2, Rfc2822(1)), RawItem(4, Rfc2822(2))>>)
FeedThree == Atom(<<RawItem(3, Rfc2822(3))>>)
UIFeeds == {FeedOne, FeedTwo, FeedThree}

\* FeedItem.title
Title(id) ==
    CASE id = 1 -> Some(3)
      [] id = 2 -> Some(6)
      [] id = 4 -> Some(2)
      [] OTHER -> None

\* FeedItem.url
Url(id) == IF id \in {1, 2} THEN Some(id) ELSE None

\* FeedItem.content: the lines try_parse_html made of the full content
Content(id) ==
    CASE id = 1 -> Some(<<9, 2>>)
      [] id = 4 -> Some(<<>>)
      [] OTHER -> None

\* FeedItem.description: the lines try_parse_html made of the summary
Description(id) ==
    CASE id = 1 -> Some(<<3>>)
      [] id = 2 -> Some(<<7>>)
      [] id = 4 -> Some(<<5>>)
      [] OTHER -> None

\* length of HumanTime::from(pub_date).to_string()
HumanTimeLen(id) ==
    CASE id = 1 -> 3
      [] id = 2 -> 6
      [] id = 4 -> 3
      [] OTHER -> 9

\* length of the text "untitled"
UntitledLen == 8

\* number of lines textwrap::wrap makes of a text with break_words: the
\* empty text gives one empty line
WrapCount(len, width) ==
    IF len = 0 THEN 1 ELSE (len + width - 1) \div width

\* utils::wrap_then_apply
wrap_then_apply(text, width) ==
    [k \in 1..WrapCount(text, width) |-> [text |-> text, part |-> k]]

RECURSIVE FlatMapWrap(_, _)
\* content.iter().flat_map(|l| wrap_then_apply(l, width, ..)).collect()
FlatMapWrap(lines, width) ==
    IF lines = <<>> THEN <<>>
    ELSE wrap_then_apply(Head(lines), width) \o FlatMapWrap(Tail(lines), width)

\* the widths and heights of the area FeedWidget::render is given
AreaWidths == {12, 20}
AreaHeights == {10, 12, 14}

\* tb_col_areas: the widths of the label and the date column
TbInnerWidth(w) == SaturatingSub(SaturatingSub(w, 2), 3)
PubDateWidth(w) == (TbInnerWidth(w) * 20) \div 100
LabelWidth(w) == SaturatingSub(TbInnerWidth(w) - PubDateWidth(w), 2)

\* FeedItem::draw_row: the row height
draw_row(item, w) ==
    LET w_title == WrapCount(IF IsSome(Title(item.id))
                             THEN Unwrap(Title(item.id)) ELSE UntitledLen,
                             LabelWidth(w))
        content_lines == IF IsSome(Url(item.id)) THEN w_title + 1 ELSE w_title
        w_pub_date == WrapCount(HumanTimeLen(item.id), PubDateWidth(w))
    IN IF content_lines >= w_pub_date THEN content_lines ELSE w_pub_date

\* text_area of ExpandedItemWidget::render: inside the border, the padding
\* and the scrollbar column, below the header (one title line, one blank,
\* two lines of metadata) and between two blank lines
TextAreaWidth(w) == SaturatingSub(w, 8)
TextAreaHeight(h) == SaturatingSub(SaturatingSub(h, 4), 6)

\* mutant: the last row has a bottom margin too
CumRowHeightsMarginAll(its, w) ==
    LET n == Len(its)
        cum[i \in 0..n] ==
            IF i = 0 THEN 0 ELSE cum[i - 1] + draw_row(its[i], w) + 1
    IN [i \in 1..n |-> cum[i]]

\* the cumulative row heights render computes: row height plus a bottom
\* margin of one line for every row but the last
CumRowHeights(its, w) ==
    LET n == Len(its)
        cum[i \in 0..n] ==
            IF i = 0 THEN 0
            ELSE cum[i - 1] + draw_row(its[i], w) + (IF i = n THEN 0 ELSE 1)
    IN [i \in 1..n |-> cum[i]]

\* tbl_total_content_height
TotalContentHeight(its, w) ==
    IF its = <<>> THEN 0 ELSE CumRowHeights(its, w)[Len(its)]

\* Option::unwrap_or
UnwrapOr(o, d) == IF IsSome(o) THEN Unwrap(o) ELSE d

\* slice.get(i).unwrap_or(&0), i counted from zero
GetOrZero(s, i) == IF i < Len(s) THEN s[i + 1] ELSE 0

\* usize::clamp
Clamp(x, lo, hi) == IF x < lo THEN lo ELSE IF x > hi THEN hi ELSE x

\* `as u16`
AsU16(x) == x % UsizeModulus

\* TableState::select_first, select_last, scroll_up_by, scroll_down_by as
\* scroll_feed calls them
TableScroll(selected, delta) ==
    CASE delta = ISizeMin -> Some(0)
      [] delta = ISizeMax -> Some(UsizeMax)
      [] delta # ISizeMin /\ delta < 0 ->
            Some(SaturatingSub(UnwrapOr(selected, 0), AsU16(0 - delta)))
      [] OTHER -> Some(SaturatingAdd(UnwrapOr(selected, 0), AsU16(delta)))

\* mutant: the position is the cumulative height before the selected row,
\* without the factor that zeroes it for the first row
ScrollbarPositionNoFactor(selected, cum) ==
    GetOrZero(cum, SaturatingSub(
        Clamp(UnwrapOr(selected, 0), 0, SaturatingSub(Len(cum), 1)), 1))

\* the scrollbar position scroll_feed derives from the selection and the
\* cumulative row heights of the last table render
ScrollbarPosition(selected, cum) ==
    LET selected_item_i ==
            Clamp(UnwrapOr(selected, 0), 0, SaturatingSub(Len(cum), 1))
    IN GetOrZero(cum, SaturatingSub(selected_item_i, 1))
          * (IF selected_item_i <= 1 THEN selected_item_i ELSE 1)

\* ExpandedItemWidget::get_max_scroll_offset
get_max_scroll_offset(content, height) ==
    SaturatingSub(IF IsSome(content) THEN Len(Unwrap(content)) ELSE 0,
                  UnwrapOr(height, 0))

\* ExpandedItemWidget::scroll: the new scroll_offset
ExpScroll(offset, delta, max_offset) ==
    CASE delta = ISizeMin -> 0
      [] delta = ISizeMax -> max_offset
      [] delta # ISizeMin /\ delta < 0 -> SaturatingSub(offset, 0 - delta)
      [] OTHER -> IF offset + delta <= max_offset
                  THEN offset + delta ELSE max_offset

\* feed_items.iter().position(|item| item.id == id), counted from zero
Position(its, id) ==
    IF \E i \in 1..Len(its) : its[i].id = id
    THEN Some((CHOOSE i \in 1..Len(its) :
                  /\ its[i].id = id
                  /\ \A j \in 1..(i - 1) : its[j].id # id) - 1)
    ELSE None

\* the deltas parse_term_key_event makes of the keys k, j, g and G
ScrollDeltas == {0 - 1, 1, ISizeMin, ISizeMax}

(***************************************************************************)
(* Part 4: the feeds file.  A text is a sequence of tokens: "\n", " ", the  *)
(* scheme prefix "https://" (which the modelled files have only at the     *)
(* start of a line, after blanks), the letters "e" and "E", and "/".       *)
(***************************************************************************)
MaxLines == 3

\* str::lines: the pieces between line feeds, without a last empty piece
RECURSIVE SplitLines(_, _)
SplitLines(rest, cur) ==
    IF rest = <<>>
    THEN IF cur = <<>> THEN <<>> ELSE <<cur>>
    ELSE IF Head(rest) = "\n"
         THEN <<cur>> \o SplitLines(Tail(rest), <<>>)
         ELSE SplitLines(Tail(rest), Append(cur, Head(rest)))

StrLines(content) == SplitLines(content, <<>>)

RECURSIVE TrimStart(_)
TrimStart(t) ==
    IF t = <<>> THEN <<>>
    ELSE IF Head(t) = " " THEN TrimStart(Tail(t)) ELSE t

RECURSIVE TrimEnd(_)
TrimEnd(t) ==
    IF t = <<>> THEN <<>>
    ELSE IF t[Len(t)] = " " THEN TrimEnd(SubSeq(t, 1, Len(t) - 1)) ELSE t

\* str::trim
Trim(t) == TrimEnd(TrimStart(t))

\* the tokens of t before the first "/"
RECURSIVE UpToSlash(_)
UpToSlash(t) ==
    IF t = <<>> \/ Head(t) = "/" THEN <<>>
    ELSE <<Head(t)>> \o UpToSlash(Tail(t))

\* mutant: every non-empty line is taken as a URL
UrlParseAny(line) ==
    IF Trim(line) = <<>> THEN None
    ELSE Some([host |-> UpToSlash(Trim(line)), path |-> <<>>])

\* Url::parse of the url crate, as App::run uses it: blanks at both ends
\* are dropped, a text without a scheme is a relative URL and an error
\* without a base, an https URL needs a host, a host has no blank
UrlParse(line) ==
    LET t == Trim(line)
    IN IF t = <<>> \/ Head(t) # "https://" THEN None
       ELSE LET host == UpToSlash(Tail(t))
                path == SubSeq(t, Len(host) + 2, Len(t))
            IN IF host = <<>> \/ \E i \in 1..Len(host) : host[i] = " "
               THEN None
               ELSE Some([host |-> host, path |-> path])

Lower(c) == IF c = "E" THEN "e" ELSE c

PercentEncode(c) == IF c = " " THEN "%20" ELSE c

\* Url::to_string: the serialization has the host in lower case and a path
\* of at least "/"
UrlToString(u) ==
    <<"https://">> \o [i \in 1..Len(u.host) |-> Lower(u.host[i])]
       \o (IF u.path = <<>> THEN <<"/">>
           ELSE [i \in 1..Len(u.path) |-> PercentEncode(u.path[i])])

\* lines().map(str::trim).filter_map(..).collect()
RECURSIVE FilterMapLines(_)
FilterMapLines(ls) ==
    IF ls = <<>> THEN <<>>
    ELSE LET line == Trim(Head(ls))
             url == IF line # <<>>
                    THEN IF IsSome(UrlParse(line))
                         THEN Some(UrlToString(Unwrap(UrlParse(line))))
                         ELSE None
                    ELSE None
         IN url \o FilterMapLines(Tail(ls))

Unreadable == [readable |-> FALSE, content |-> <<>>]
Readable(c) == [readable |-> TRUE, content |-> c]

\* fs::read_to_string(feeds_file).await.map(..).unwrap_or_default()
ParseFeedsFile(file) ==
    IF file.readable THEN FilterMapLines(StrLines(file.content)) ELSE <<>>

\* the lines the modelled files are made of
LineEmpty == <<>>
LineBlank == <<" ", " ">>
LineUrl == <<"https://", "e", "/", "e">>
LinePadded == <<" ", "https://", "E", " ">>
LineNotUrl == <<"e", "e">>
LineNoHost == <<"https://">>
FileLines ==
    {LineEmpty, LineBlank, LineUrl, LinePadded, LineNotUrl, LineNoHost}

RECURSIVE JoinLines(_)
JoinLines(ls) ==
    IF ls = <<>> THEN <<>>
    ELSE IF Len(ls) = 1 THEN ls[1]
         ELSE Head(ls) \o <<"\n">> \o JoinLines(Tail(ls))

FeedsFiles ==
    {Unreadable} \cup
    {Readable(JoinLines(ls) \o nl) :
        ls \in UNION {[1..n -> FileLines] : n \in 0..MaxLines},
        nl \in {<<>>, <<"\n">>}}

\* ExpandedItemWidget::default and FeedWidget::new
InitWidgets ==
    /\ tb_selected = None
    /\ tb_cum_row_heights = <<>>
    /\ sb_position = 0
    /\ sb_content_length = 0
    /\ exp_id = None
    /\ cached_render_content = None
    /\ curr_content_render_width = None
    /\ curr_content_render_height = None
    /\ scroll_offset = 0
    /\ exp_sb_position = 0
    /\ should_quit = FALSE
    /\ app_event_chan = <<>>
    /\ last_op = "new"
    /\ shown = None

\* App::default, and main and App::run up to the select! loop
InitUI ==
    /\ InitWidgets
    /\ main_pc = "select"
    /\ raw_mode = TRUE
    /\ alt_screen = TRUE
    /\ panic_hook = TRUE
    /\ feeds_file = Unreadable
    /\ feed_urls = <<>>

\* the fetch variables the views do not touch
fetchRest == <<show_help, feed_started, nsrc, task, result, completed,
               loading_count, rw_writer, rw_readers, loop_pc, new_items,
               render_pc>>

\* a fetch task merges a decoded feed: write guard, extend, sort_by
UIMerge(feed) ==
    /\ main_pc \in {"select", "sending"}
    /\ \A i \in 1..Len(feed.items) :
          ~IsSome(Position(items, feed.items[i].hash))
    /\ items' = SortByPubDateDesc(Extend(items, FilterMapItems(feed.items)))
    /\ last_op' = "merge"
    /\ shown' = shown
    /\ UNCHANGED <<fetchRest, streamVars, mainVars, tableVars, expVars, loopVars>>

\* handle_event(AppEvent::Scroll(delta)) with nothing expanded: scroll_feed
HandleScrollFeed(delta) ==
    /\ last_op' = "scroll_feed"
    /\ shown' = shown
    /\ main_pc = "select"
    /\ ~IsSome(exp_id)
    /\ delta = 1 =>
          (UnwrapOr(tb_selected, 0) < MaxSelected
             \/ UnwrapOr(tb_selected, 0) >= UsizeMax - 1)
    /\ delta = 0 - 1 =>
          (UnwrapOr(tb_selected, 0) <= MaxSelected
             \/ UnwrapOr(tb_selected, 0) = UsizeMax)
    /\ tb_selected' = TableScroll(tb_selected, delta)
    /\ sb_position' = ScrollbarPosition(tb_selected', tb_cum_row_heights)
    /\ UNCHANGED <<tb_cum_row_heights, sb_content_length>>
    /\ UNCHANGED <<fetchVars, streamVars, mainVars, expVars, loopVars>>

\* mutant: a scroll of the expanded view moves the table selection as well
HandleScrollExpAndTable(delta) ==
    /\ last_op' = "scroll"
    /\ shown' = shown
    /\ main_pc = "select"
    /\ IsSome(exp_id)
    /\ scroll_offset' =
          ExpScroll(scroll_offset, delta,
                    get_max_scroll_offset(cached_render_content,
                                          curr_content_render_height))
    /\ exp_sb_position' = scroll_offset'
    /\ tb_selected' = TableScroll(tb_selected, delta)
    /\ UNCHANGED <<exp_id, cached_render_content, curr_content_render_width,
                   curr_content_render_height>>
    /\ UNCHANGED <<tb_cum_row_heights, sb_position, sb_content_length>>
    /\ UNCHANGED <<fetchVars, streamVars, mainVars, loopVars>>

\* handle_event(AppEvent::Scroll(delta)) with an entry expanded:
\* ExpandedItemWidget::scroll
HandleScrollExp(delta) ==
    /\ last_op' = "scroll"
    /\ shown' = shown
    /\ main_pc = "select"
    /\ IsSome(exp_id)
    /\ scroll_offset' =
          ExpScroll(scroll_offset, delta,
                    get_max_scroll_offset(cached_render_content,
                                          curr_content_render_height))
    /\ exp_sb_position' = scroll_offset'
    /\ UNCHANGED <<exp_id, cached_render_content, curr_content_render_width,
                   curr_content_render_height>>
    /\ UNCHANGED <<fetchVars, streamVars, mainVars, tableVars, loopVars>>

\* mutant: an index past the end yields the last entry
ItemsGetLast(its, i) ==
    IF its = <<>> THEN None
    ELSE IF i < Len(its) THEN Some(its[i + 1]) ELSE Some(its[Len(its)])

\* items.get(i), i counted from zero
ItemsGet(its, i) == IF i < Len(its) THEN Some(its[i + 1]) ELSE None

\* handle_event(AppEvent::Expand)
HandleExpand ==
    /\ last_op' = "expand"
    /\ shown' = shown
    /\ main_pc = "select"
    /\ exp_id' =
          IF IsSome(tb_selected) /\ IsSome(ItemsGet(items, Unwrap(tb_selected)))
          THEN Some(Unwrap(ItemsGet(items, Unwrap(tb_selected))).id)
          ELSE exp_id
    /\ UNCHANGED <<cached_render_content, curr_content_render_width,
                   curr_content_render_height, scroll_offset, exp_sb_position>>
    /\ UNCHANGED <<fetchVars, streamVars, mainVars, tableVars, loopVars>>

\* mutant: Close forgets the expanded id but keeps the rest of the view
HandleCloseKeep ==
    /\ last_op' = "close_expanded"
    /\ shown' = shown
    /\ main_pc = "select"
    /\ IsSome(exp_id)
    /\ exp_id' = None
    /\ UNCHANGED <<cached_render_content, curr_content_render_width,
                   curr_content_render_height, scroll_offset, exp_sb_position>>
    /\ UNCHANGED <<fetchVars, streamVars, mainVars, tableVars, loopVars>>

\* handle_event(AppEvent::Close) with an entry expanded:
\* self.exp_item = ExpandedItemWidget::default()
HandleCloseExpanded ==
    /\ last_op' = "close_expanded"
    /\ shown' = shown
    /\ main_pc = "select"
    /\ IsSome(exp_id)
    /\ exp_id' = None
    /\ cached_render_content' = None
    /\ curr_content_render_width' = None
    /\ curr_content_render_height' = None
    /\ scroll_offset' = 0
    /\ exp_sb_position' = 0
    /\ UNCHANGED <<fetchVars, streamVars, mainVars, tableVars, loopVars>>

\* handle_event(AppEvent::Close) with nothing expanded:
\* self.app_event_tx.send(AppEvent::Exit).await.  With the channel full the
\* send waits for capacity, which only app_event_rx.recv() in the select!
\* of this same task could free: the task stays in the send.
HandleCloseCollapsed ==
    /\ last_op' = "close_collapsed"
    /\ shown' = shown
    /\ main_pc = "select"
    /\ ~IsSome(exp_id)
    /\ IF app_event_chan = <<>>
       THEN /\ app_event_chan' = <<"Exit">>
            /\ main_pc' = main_pc
       ELSE /\ app_event_chan' = app_event_chan
            /\ main_pc' = "sending"
    /\ UNCHANGED should_quit
    /\ UNCHANGED <<fetchVars, streamVars, mainVars, tableVars, expVars>>

\* handle_term_event for Ctrl+D: AppEvent::Exit sets should_quit and the
\* while loop ends
HandleExit ==
    /\ last_op' = "exit"
    /\ shown' = shown
    /\ main_pc = "select"
    /\ should_quit' = TRUE
    /\ main_pc' = "done"
    /\ UNCHANGED app_event_chan
    /\ UNCHANGED <<fetchVars, streamVars, mainVars, tableVars, expVars>>

\* select!: Some(AppEvent::Exit) = self.app_event_rx.recv()
RecvExit ==
    /\ last_op' = "recv"
    /\ shown' = shown
    /\ main_pc = "select"
    /\ app_event_chan # <<>>
    /\ app_event_chan' = Tail(app_event_chan)
    /\ should_quit' = TRUE
    /\ main_pc' = "done"
    /\ UNCHANGED <<fetchVars, streamVars, mainVars, tableVars, expVars>>

\* mutant: the table renders without bringing the selection into range
ClampSelectedNone(selected, nrows) == selected

\* Table::render of ratatui: a selection past the last row is moved to the
\* last row
ClampSelected(selected, nrows) ==
    IF IsSome(selected) /\ Unwrap(selected) >= nrows
    THEN Some(SaturatingSub(nrows, 1))
    ELSE selected

\* render: the index handed to tb_state.select
SelectedItemIndex(its, id, selected) ==
    IF IsSome(id) /\ IsSome(Position(its, Unwrap(id)))
    THEN Position(its, Unwrap(id))
    ELSE IF selected = None /\ its # <<>> THEN Some(0) ELSE selected

\* the expanded entry render finds in the list, if any
ExpFeedItem ==
    IF IsSome(exp_id) /\ IsSome(Position(items, Unwrap(exp_id)))
    THEN Some(items[Unwrap(Position(items, Unwrap(exp_id))) + 1])
    ELSE None

\* the tick branch of select! is reached only when no Exit is waiting in the
\* channel
TickWins ==
    /\ main_pc = "select"
    /\ app_event_chan = <<>>

\* the row Table::render highlights: its index and the entry drawn in it
HighlightedRow(its, selected) ==
    IF IsSome(selected) /\ Unwrap(selected) < Len(its)
    THEN Some([row |-> Unwrap(selected), id |-> its[Unwrap(selected) + 1].id])
    ELSE None

\* terminal.draw -> FeedWidget::render, the table view, in an area w wide
RenderTable(w) ==
    /\ last_op' = "render_table"
    /\ TickWins
    /\ ~show_help
    /\ ~IsSome(ExpFeedItem)
    /\ tb_cum_row_heights' = CumRowHeights(items, w)
    /\ sb_content_length' = TotalContentHeight(items, w)
    /\ tb_selected' =
          ClampSelected(SelectedItemIndex(items, exp_id, tb_selected),
                        Len(items))
    /\ shown' = HighlightedRow(items, tb_selected')
    /\ UNCHANGED sb_position
    /\ UNCHANGED <<fetchVars, streamVars, mainVars, expVars, loopVars>>

\* sync_content_and_viewport: the cached content after the call
SyncContent(feed_item, width) ==
    LET render_width_changed ==
            IF IsSome(curr_content_render_width)
            THEN Unwrap(curr_content_render_width) # width
            ELSE TRUE
        item_id_changed == exp_id # Some(feed_item.id)
        content_to_render ==
            IF IsSome(Content(feed_item.id))
            THEN Content(feed_item.id)
            ELSE Description(feed_item.id)
    IN IF render_width_changed \/ item_id_changed
       THEN IF IsSome(content_to_render)
            THEN Some(FlatMapWrap(Unwrap(content_to_render), width))
            ELSE None
       ELSE cached_render_content

\* terminal.draw -> FeedWidget::render -> ExpandedItemWidget::render in an
\* area w wide and h high; the unwrap of a cache that is None panics
RenderExpanded(w, h) ==
    /\ last_op' = "render_expanded"
    /\ shown' = None
    /\ TickWins
    /\ ~show_help
    /\ IsSome(ExpFeedItem)
    /\ LET feed_item == Unwrap(ExpFeedItem)
           width == TextAreaWidth(w)
           height == TextAreaHeight(h)
       IN /\ cached_render_content' = SyncContent(feed_item, width)
          /\ exp_id' = Some(feed_item.id)
          /\ curr_content_render_height' = Some(height)
          /\ curr_content_render_width' = Some(width)
          /\ scroll_offset' =
                LET m == get_max_scroll_offset(cached_render_content',
                                               curr_content_render_height')
                IN IF scroll_offset <= m THEN scroll_offset ELSE m
          /\ exp_sb_position' = scroll_offset'
          /\ main_pc' = IF IsSome(cached_render_content')
                        THEN main_pc ELSE "panicked"
    /\ UNCHANGED <<should_quit, app_event_chan>>
    /\ UNCHANGED <<fetchVars, streamVars, mainVars, tableVars>>

NextUI ==
    \/ \E feed \in UIFeeds : UIMerge(feed)
    \/ \E delta \in ScrollDeltas : HandleScrollFeed(delta)
    \/ \E delta \in ScrollDeltas : HandleScrollExp(delta)
    \/ HandleExpand
    \/ HandleCloseExpanded
    \/ HandleCloseCollapsed
    \/ HandleExit
    \/ RecvExit
    \/ \E w \in AreaWidths : RenderTable(w)
    \/ \E w \in AreaWidths : \E h \in AreaHeights : RenderExpanded(w, h)

(***************************************************************************)
(* Part 5: main.  The terminal is set up, App::run reads the feeds file    *)
(* and runs the select! loop, and the terminal is restored.                *)
(***************************************************************************)
mainFrame == <<fetchVars, streamVars, tableVars, expVars, should_quit,
               app_event_chan>>

\* enable_raw_mode()?
EnableRawMode ==
    /\ main_pc = "start"
    /\ raw_mode' = TRUE
    /\ main_pc' = "raw"
    /\ last_op' = "enable_raw_mode"
    /\ shown' = shown
    /\ UNCHANGED <<mainFrame, alt_screen, panic_hook, feeds_file, feed_urls>>

\* enable_raw_mode()? returns the error from main
EnableRawModeFails ==
    /\ main_pc = "start"
    /\ main_pc' = "exit_err"
    /\ last_op' = "enable_raw_mode_err"
    /\ shown' = shown
    /\ UNCHANGED <<mainFrame, mainVars>>

\* execute!(io::stdout(), EnterAlternateScreen)?
EnterAlternateScreen ==
    /\ main_pc = "raw"
    /\ alt_screen' = TRUE
    /\ main_pc' = "alt"
    /\ last_op' = "enter_alternate_screen"
    /\ shown' = shown
    /\ UNCHANGED <<mainFrame, raw_mode, panic_hook, feeds_file, feed_urls>>

\* execute!(io::stdout(), EnterAlternateScreen)? returns the error from main
EnterAlternateScreenFails ==
    /\ main_pc = "raw"
    /\ main_pc' = "exit_err"
    /\ last_op' = "enter_alternate_screen_err"
    /\ shown' = shown
    /\ UNCHANGED <<mainFrame, mainVars>>

\* Terminal::new(CrosstermBackend::new(io::stdout()))?
NewTerminal ==
    /\ main_pc = "alt"
    /\ main_pc' = "terminal"
    /\ last_op' = "new_terminal"
    /\ shown' = shown
    /\ UNCHANGED <<mainFrame, mainVars>>

\* Terminal::new(..)? returns the error from main
NewTerminalFails ==
    /\ main_pc = "alt"
    /\ main_pc' = "exit_err"
    /\ last_op' = "new_terminal_err"
    /\ shown' = shown
    /\ UNCHANGED <<mainFrame, mainVars>>

\* take_hook and set_hook: the hook calls term_restore, then the default
SetHook ==
    /\ main_pc = "terminal"
    /\ panic_hook' = TRUE
    /\ main_pc' = "run"
    /\ last_op' = "set_hook"
    /\ shown' = shown
    /\ UNCHANGED <<mainFrame, raw_mode, alt_screen, feeds_file, feed_urls>>

\* App::run up to the select! loop: the feeds file becomes feed_urls
ReadFeedsFile ==
    /\ main_pc = "run"
    /\ feed_urls' = ParseFeedsFile(feeds_file)
    /\ main_pc' = "select"
    /\ last_op' = "read_feeds_file"
    /\ shown' = shown
    /\ UNCHANGED <<mainFrame, raw_mode, alt_screen, panic_hook, feeds_file>>

\* the tick branch: terminal.draw(..)? returns the error from App::run,
\* and `.await?` in main returns it from main
DrawFails ==
    /\ TickWins
    /\ main_pc' = "exit_err"
    /\ last_op' = "draw_err"
    /\ shown' = shown
    /\ UNCHANGED <<mainFrame, mainVars>>

\* App::run returned Ok: term_restore()? and Ok(())
TermRestore ==
    /\ main_pc = "done"
    /\ raw_mode' = FALSE
    /\ alt_screen' = FALSE
    /\ main_pc' = "exit_ok"
    /\ last_op' = "term_restore"
    /\ shown' = shown
    /\ UNCHANGED <<mainFrame, panic_hook, feeds_file, feed_urls>>

\* a panic in the task running App::run: the hook runs `let _ =
\* term_restore()` and the default hook, and the panic leaves main
PanicHook ==
    /\ main_pc = "panicked"
    /\ raw_mode' = (raw_mode /\ ~panic_hook)
    /\ alt_screen' = (alt_screen /\ ~panic_hook)
    /\ main_pc' = "aborted"
    /\ last_op' = "panic_hook"
    /\ shown' = shown
    /\ UNCHANGED <<mainFrame, panic_hook, feeds_file, feed_urls>>

NextMain ==
    \/ EnableRawMode
    \/ EnableRawModeFails
    \/ EnterAlternateScreen
    \/ EnterAlternateScreenFails
    \/ NewTerminal
    \/ NewTerminalFails
    \/ SetHook
    \/ ReadFeedsFile
    \/ DrawFails
    \/ TermRestore
    \/ PanicHook
    \/ NextUI

\* the feeds file of the run that SpecMain follows
MainFeedsFile == Readable(JoinLines(<<LineBlank, LineUrl, LineNotUrl>>))

\* the state in which main starts
InitMain ==
    /\ InitFetch
    /\ InitStream
    /\ InitWidgets
    /\ main_pc = "start"
    /\ raw_mode = FALSE
    /\ alt_screen = FALSE
    /\ panic_hook = FALSE
    /\ feeds_file = MainFeedsFile
    /\ feed_urls = <<>>

SpecMain == InitMain /\ [][NextMain]_vars

\* App::run is entered with any of the modelled feeds files
InitSources ==
    /\ InitFetch
    /\ InitStream
    /\ InitWidgets
    /\ main_pc = "run"
    /\ raw_mode = TRUE
    /\ alt_screen = TRUE
    /\ panic_hook = TRUE
    /\ feeds_file \in FeedsFiles
    /\ feed_urls = <<>>

NextSources == ReadFeedsFile

SpecSources == InitSources /\ [][NextSources]_vars

Init == InitFetch /\ InitStream /\ InitUI

SpecFetch == Init /\ [][NextFetch]_vars

SpecStream == Init /\ [][NextStream]_vars

InitClock == InitFetch /\ InitStreamClock /\ InitUI

SpecStreamClock == InitClock /\ [][NextStream]_vars

SpecUI == Init /\ [][NextUI]_vars

\* a message waiting in the channel is received once the loop is back at
\* select! and the input stream has nothing ready
SpecUILive ==
    /\ SpecUI
    /\ WF_vars(RecvExit)

\* the select! loop of App::run polls the stream again whenever it is woken,
\* and the tokio timer wheel completes every Sleep
SpecStreamLive ==
    /\ SpecStream
    /\ WF_vars(PollNext)
    /\ WF_vars(Tick)

(***************************************************************************)
(* Properties of the feed acquisition pipeline.                            *)
(***************************************************************************)
IsSortedDesc(s) ==
    \A i \in 1..(Len(s) - 1) : s[i].pub_date >= s[i + 1].pub_date

Count(s, e) == Cardinality({i \in 1..Len(s) : s[i] = e})

\* the fetch of source s has completed, successfully or not
Settled(s) == task[s] \in {"done", "joined"}

\* the join loop has nothing left to do with what has completed so far
LoopAtRest ==
    \/ loop_pc \in {"done", "panicked"}
    \/ loop_pc = "join" /\ completed = <<>>

\* the items of a decoded feed that carry a non-zero hash and a parsable
\* publication date, as entries
RECURSIVE ValidEntries(_)
ValidEntries(raws) ==
    IF raws = <<>> THEN <<>>
    ELSE (IF raws[1].hash # 0 /\ raws[1].pub_date.tag = "rfc2822"
          THEN <<[id |-> raws[1].hash, pub_date |-> raws[1].pub_date.value]>>
          ELSE <<>>) \o ValidEntries(Tail(raws))

EntryUniverse ==
    UNION {Range(ValidEntries(r.items)) : r \in Outcomes}

RECURSIVE SumOver(_, _)
SumOver(f, S) ==
    IF S = {} THEN 0
    ELSE LET x == CHOOSE y \in S : TRUE IN f[x] + SumOver(f, S \ {x})

\* how often entry e occurs among the valid entries of the decoded sources
Expected(e) ==
    SumOver([s \in Sources |->
                IF Settled(s) /\ IsFeed(result[s])
                THEN Count(ValidEntries(result[s].items), e) ELSE 0],
            Sources)

\* C1: after every merge (append, then sort, under the write guard), and in
\* every state in which a reader holds a read guard, the entry list is
\* sorted non-increasing by pub_date; the appended, not yet sorted list is
\* never visible to a reader.
C1_SortedAfterMerge ==
    /\ rw_readers > 0 => IsSortedDesc(items)
    /\ loop_pc = "dec" => IsSortedDesc(items)
    /\ ~(rw_writer /\ rw_readers > 0)

\* a reader holds the guard on a list that two merges built, while the list
\* holds entries of different dates
C1_Witness ==
    /\ rw_readers = 1
    /\ Len(items) >= 7
    /\ \E i \in 1..(Len(items) - 1) : items[i].pub_date > items[i + 1].pub_date

\* C2: the loading counter is the number of sources before any fetch task
\* starts, never exceeds it (no wrap-around), and whenever the join loop is
\* at rest it equals the number of sources whose fetch has not completed: it
\* is decremented exactly once per completed source and is zero exactly when
\* all sources have completed, so is_loading is true iff a source has not
\* settled.
C2_LoadingCounter ==
    /\ loop_pc = "spawn" => loading_count = nsrc
    /\ loading_count <= nsrc
    /\ LoopAtRest =>
          loading_count = Cardinality({s \in 1..nsrc : ~Settled(s)})
    /\ LoopAtRest => (is_loading <=> \E s \in 1..nsrc : ~Settled(s))

\* C3: whichever sources fail, no fetch task is ever cancelled, and once the
\* join loop is at rest the valid entries of every source that completed
\* with a decoded feed are in the store.
C3_FailureIsolation ==
    /\ \A s \in Sources : task[s] # "aborted"
    /\ LoopAtRest =>
          \A s \in 1..nsrc :
             (Settled(s) /\ IsFeed(result[s])) =>
                \A e \in Range(ValidEntries(result[s].items)) :
                   Count(items, e) >= Count(ValidEntries(result[s].items), e)

\* C4: once all sources have settled and the join loop is at rest, the store
\* holds exactly the multiset union of the valid entries of the decoded
\* sources.
C4_StoreIsUnion ==
    (LoopAtRest /\ \A s \in 1..nsrc : Settled(s)) =>
        /\ \A e \in EntryUniverse : Count(items, e) = Expected(e)
        /\ \A i \in 1..Len(items) : items[i] \in EntryUniverse

(***************************************************************************)
(* Properties of the debounced event stream.                               *)
(***************************************************************************)
\* an Up or Down key event: the coalescable class
IsUpDownKey(event) ==
    event.kind \in {KeyEv("Up"), KeyEv("Down")}

\* poll_next reads the event at the head of the EventStream in this step
ReadsHead == PollNext /\ poll_pc = "loop" /\ inner # <<>>

EmittedIds == {emitted[i].id : i \in 1..Len(emitted)}

\* C5: a coalescable event read while can_emit is true is returned by that
\* same poll, can_emit becomes false and a timer of the configured delay is
\* started.
C5_LeadingEmit ==
    [][(ReadsHead /\ IsUpDownKey(Head(inner)) /\ can_emit) =>
          /\ ret' = Ready(Some(TakeHead))
          /\ emitted' = Append(emitted, TakeHead)
          /\ poll_pc' = "idle"
          /\ can_emit' = FALSE
          /\ timer' = Some(DelayTicks)
          /\ pending_event' = pending_event]_vars

\* the first event of the run was an Up/Down key and the poll that read it
\* returned it and started the timer
C5_Witness ==
    /\ Len(emitted) = 1
    /\ IsUpDownKey(emitted[1])
    /\ emitted[1].id = 1
    /\ ret = Ready(Some(emitted[1]))
    /\ ~can_emit
    /\ timer = Some(DelayTicks)

\* C6: a coalescable event read while can_emit is false is not returned; it
\* becomes the pending event, replacing an older one, and can_emit and the
\* timer are left as they are.  At most one event is buffered, and a
\* buffered event is the most recently read coalescable event.
C6_BufferMostRecent ==
    /\ [](/\ Len(pending_event) <= 1
          /\ IsSome(pending_event) =>
                (pending_event = last_coal_read /\ ~can_emit /\ IsSome(timer)))
    /\ [][(ReadsHead /\ IsUpDownKey(Head(inner)) /\ ~can_emit) =>
             /\ pending_event' = Some(TakeHead)
             /\ emitted' = emitted
             /\ ret' = ret
             /\ poll_pc' = "loop"
             /\ can_emit' = can_emit
             /\ timer' = timer]_vars

\* three Up/Down keys were read: the first was returned, the second was
\* buffered and then replaced by the third
C6_Witness ==
    /\ narrived = 3
    /\ inner = <<>>
    /\ Len(emitted) = 1
    /\ emitted[1].id = 1
    /\ IsSome(pending_event)
    /\ Unwrap(pending_event).id = 3
    /\ IsSome(timer)

\* C7: when poll_next finds the timer completed, a pending event is
\* returned, the buffer is emptied, a new timer is started and can_emit
\* stays false; with nothing pending the timer is removed and can_emit
\* becomes true.
C7_TimerFires ==
    [][(PollNext /\ poll_pc = "idle" /\ TimerReady) =>
          IF IsSome(pending_event)
          THEN /\ ret' = Ready(pending_event)
               /\ emitted' = Append(emitted, Unwrap(pending_event))
               /\ pending_event' = None
               /\ timer' = Some(DelayTicks)
               /\ can_emit' = FALSE
               /\ inner' = inner
               /\ poll_pc' = "idle"
          ELSE /\ timer' = None
               /\ can_emit' = TRUE
               /\ pending_event' = None
               /\ emitted' = emitted
               /\ poll_pc' = "loop"]_vars

\* the timer completed twice: first with an event pending, which was
\* returned, then with nothing pending, which reopened the stream
C7_Witness ==
    /\ Len(emitted) = 2
    /\ IsUpDownKey(emitted[1])
    /\ IsUpDownKey(emitted[2])
    /\ ~inner_ended
    /\ timer = None
    /\ can_emit
    /\ pending_event = None
    /\ poll_pc = "loop"

\* C8: an event that is not an Up/Down key event (a read error included) is
\* returned by the poll that reads it, whatever can_emit is, and can_emit,
\* the pending event and the timer are left as they are.
C8_PassThrough ==
    [][(ReadsHead /\ ~IsUpDownKey(Head(inner))) =>
          /\ ret' = Ready(Some(TakeHead))
          /\ emitted' = Append(emitted, TakeHead)
          /\ poll_pc' = "idle"
          /\ can_emit' = can_emit
          /\ pending_event' = pending_event
          /\ timer' = timer]_vars

\* a read error passed through while an Up/Down key was buffered and the
\* timer was running
C8_Witness ==
    /\ ret.poll = "Ready"
    /\ IsSome(ret.item)
    /\ Unwrap(ret.item).kind = IoErr
    /\ ~can_emit
    /\ IsSome(pending_event)
    /\ IsSome(timer)
    /\ Unwrap(timer) > 0

Max(a, b) == IF a >= b THEN a ELSE b
Min(a, b) == IF a <= b THEN a ELSE b

\* the coalescable events among those returned so far
EmittedCoalescable == {i \in 1..Len(emitted) : IsUpDownKey(emitted[i])}

\* nothing is queued upstream, nothing is buffered and no poll is under way
StreamQuiet ==
    /\ inner = <<>>
    /\ pending_event = None
    /\ poll_pc = "idle"

\* the span of the three instants a, b, c is shorter than the delay
WithinWindow(a, b, c) ==
    /\ a < MaxTime
    /\ b < MaxTime
    /\ c < MaxTime
    /\ Max(a, Max(b, c)) - Min(a, Min(b, c)) < DelayTicks

\* once the stream is quiet, the last coalescable event emitted is the last
\* coalescable event that was read
C9_LastIsLast ==
    (StreamQuiet /\ IsSome(last_coal_read)) =>
        /\ EmittedCoalescable # {}
        /\ \A i \in EmittedCoalescable :
              (\A j \in EmittedCoalescable : j <= i) =>
                 emitted[i] = Unwrap(last_coal_read)

\* C9 as stated: of the coalescable events that arrive within less than one
\* suppression window at most two are emitted, and the last event emitted
\* is the last event of the burst.
C9_BurstArriving ==
    /\ \A i, j, k \in EmittedCoalescable :
          (i < j /\ j < k) =>
             ~WithinWindow(emitted[i].at, emitted[j].at, emitted[k].at)
    /\ C9_LastIsLast

\* C9, amended: of the coalescable events that poll_next reads within less
\* than one suppression window at most two are emitted, and once nothing is
\* queued or buffered the last coalescable event emitted is the last one
\* read.
C9_BurstRead ==
    /\ \A i, j, k \in EmittedCoalescable :
          (i < j /\ j < k) =>
             ~WithinWindow(emitted[i].read_at, emitted[j].read_at,
                           emitted[k].read_at)
    /\ C9_LastIsLast

\* three Up/Down keys were read within less than one window: the first and
\* the third were emitted, the second was dropped
C9_Witness ==
    /\ StreamQuiet
    /\ ~inner_ended
    /\ narrived = 3
    /\ Len(emitted) = 2
    /\ emitted[1].id = 1
    /\ emitted[2].id = 3
    /\ IsUpDownKey(emitted[2])
    /\ emitted[2].read_at - emitted[1].read_at < DelayTicks
    /\ emitted[2].read_at < MaxTime

\* C10: under continued polling and a timer that completes, the most recent
\* coalescable event read is eventually emitted and a buffered event does
\* not stay buffered forever; a buffered event leaves the buffer only by
\* being returned or by being replaced by a coalescable event read later.
C10_Trailing ==
    /\ \A n \in 1..MaxEvents :
          (IsSome(last_coal_read) /\ Unwrap(last_coal_read).id = n)
             ~> (n \in EmittedIds
                   \/ ~(IsSome(last_coal_read) /\ Unwrap(last_coal_read).id = n))
    /\ \A n \in 1..MaxEvents :
          (IsSome(pending_event) /\ Unwrap(pending_event).id = n)
             ~> ~(IsSome(pending_event) /\ Unwrap(pending_event).id = n)
    /\ [][(IsSome(pending_event) /\ pending_event' # pending_event) =>
             \/ emitted' = Append(emitted, Unwrap(pending_event))
             \/ /\ IsSome(pending_event')
                /\ IsUpDownKey(Unwrap(pending_event'))
                /\ Unwrap(pending_event').id > Unwrap(pending_event).id]_vars

\* the third Up/Down key of a run replaced the second in the buffer and was
\* returned when the timer completed, the EventStream still being open
C10_Witness ==
    /\ ~inner_ended
    /\ Len(emitted) = 2
    /\ emitted[1].id = 1
    /\ emitted[2].id = 3
    /\ IsUpDownKey(emitted[2])
    /\ last_coal_read = Some(emitted[2])
    /\ pending_event = None

\* poll_next returns in this step
PollReturns == PollNext /\ poll_pc' = "idle"

\* C11: a poll that finds the EventStream ended returns the pending event if
\* there is one, whatever the timer says, and removes it from the buffer;
\* it reports the end only when nothing is pending and nothing is left to
\* read; once the end has been reported no event is returned any more.
C11_EndOfStream ==
    /\ [][(PollNext /\ poll_pc = "loop" /\ inner = <<>> /\ inner_ended) =>
             IF IsSome(pending_event)
             THEN /\ ret' = Ready(pending_event)
                  /\ emitted' = Append(emitted, Unwrap(pending_event))
                  /\ pending_event' = None
                  /\ timer' = timer
             ELSE /\ ret' = Ready(None)
                  /\ emitted' = emitted]_vars
    /\ [][(PollReturns /\ ret' = Ready(None)) =>
             (inner = <<>> /\ inner_ended /\ pending_event = None)]_vars
    /\ [][ret = Ready(None) =>
             (emitted' = emitted /\ (PollReturns => ret' = Ready(None)))]_vars

\* the end was reported after an Up/Down key had been returned as the
\* trailing event of a burst, while the timer was still running
C11_Witness ==
    /\ ret = Ready(None)
    /\ inner_ended
    /\ Len(emitted) = 2
    /\ IsUpDownKey(emitted[1])
    /\ IsUpDownKey(emitted[2])
    /\ emitted[2].id = 3
    /\ IsSome(timer)
    /\ Unwrap(timer) > 0

(***************************************************************************)
(* Properties of the views and of the main loop.                           *)
(***************************************************************************)
\* the body the expanded view shows of an entry: the full content, else the
\* summary
Body(id) == IF IsSome(Content(id)) THEN Content(id) ELSE Description(id)

\* the body of the entry is empty or absent
NoBody(id) == ~IsSome(Body(id)) \/ Body(id) = Some(<<>>)

\* the largest offset the cached content and the last rendered height allow
OffsetBound ==
    LET total == IF IsSome(cached_render_content)
                 THEN Len(Unwrap(cached_render_content)) ELSE 0
        height == UnwrapOr(curr_content_render_height, 0)
    IN Max(0, total - height)

\* the scroll offset is within the bound in every state
C12_OffsetWithinBound ==
    /\ scroll_offset >= 0
    /\ scroll_offset <= OffsetBound

\* C12: in the expanded view the scroll offset is always within
\* [0, max(0, total wrapped lines - viewport height)] for the cached content
\* and the last rendered height, and jump-to-last on an entry whose body is
\* empty or absent leaves the offset at 0.
C12_ScrollOffset ==
    /\ []C12_OffsetWithinBound
    /\ [][(HandleScrollExp(ISizeMax) /\ NoBody(Unwrap(exp_id))) =>
             scroll_offset' = 0]_vars

\* C13: whenever the selected row index is 0 the scrollbar position of the
\* table is 0.
C13_ScrollbarZeroAtFirstRow ==
    tb_selected = Some(0) => sb_position = 0

\* a scroll command has brought the selection back to the first row of a
\* table whose first row is several lines high and whose cumulative heights
\* are older than the last merge
C13_Witness ==
    /\ last_op = "scroll_feed"
    /\ tb_selected = Some(0)
    /\ sb_position = 0
    /\ Len(tb_cum_row_heights) >= 2
    /\ tb_cum_row_heights[1] > 1
    /\ Len(items) > Len(tb_cum_row_heights)

\* a table render has just drawn a non-empty list
TableShown == last_op = "render_table" /\ items # <<>>

HeightBeforeSelected ==
    IF tb_selected = None \/ tb_selected = Some(0) THEN 0
    ELSE tb_cum_row_heights[Unwrap(tb_selected)]

\* C15: in every state reached by a render of the table view the scrollbar
\* position equals the cumulative row height of the current layout up to
\* the row before the selected one, and 0 when row 0 is selected.
C15_ScrollbarTracksLayout ==
    TableShown => sb_position = HeightBeforeSelected

\* the entry the selected row of the table holds
SelectedEntry == ItemsGet(items, UnwrapOr(tb_selected, UsizeMax))

\* C16: after every render of the expanded view the table selection is the
\* position of the expanded entry in the list, so that when the view is
\* closed the selected row is the entry that was expanded, wherever merges
\* have moved it; a table render with nothing
\* expanded, no selection and a non-empty list selects row 0, and a render
\* leaves a selection that is within the list as it is.
C16_SelectionFollows ==
    /\ []((last_op = "render_expanded" /\ main_pc # "panicked") =>
             tb_selected = Position(items, Unwrap(exp_id)))
    /\ [][(HandleCloseExpanded /\ last_op = "render_expanded") =>
             (IsSome(SelectedEntry')
                /\ Unwrap(SelectedEntry').id = Unwrap(exp_id))]_vars
    /\ [][((\E w \in AreaWidths : RenderTable(w))
              /\ tb_selected = None /\ items # <<>>) =>
             tb_selected' = Some(0)]_vars
    /\ [][((\E w \in AreaWidths : RenderTable(w))
              /\ IsSome(tb_selected) /\ Unwrap(tb_selected) < Len(items)) =>
             tb_selected' = tb_selected]_vars

\* the wrap of the body of entry id at the given width; None without a body
WrappedBody(id, width) ==
    IF IsSome(Body(id)) THEN Some(FlatMapWrap(Unwrap(Body(id)), width))
    ELSE None

\* an expanded-view render happens in this step
ExpRenders == \E w \in AreaWidths : \E h \in AreaHeights : RenderExpanded(w, h)

\* C17: after every render of the expanded view the cached content is the
\* wrap of the body of the expanded entry at the width of that render; a
\* render that changes neither the entry nor the width leaves the cache as
\* it is.
C17_CacheIsCurrentWrap ==
    /\ [](last_op = "render_expanded" =>
            cached_render_content =
               WrappedBody(Unwrap(exp_id), Unwrap(curr_content_render_width)))
    /\ [][(ExpRenders /\ last_op = "render_expanded"
              /\ curr_content_render_width' = curr_content_render_width) =>
             cached_render_content' = cached_render_content]_vars

\* every field of the expanded view has its default value
ExpCleared ==
    /\ exp_id = None
    /\ cached_render_content = None
    /\ curr_content_render_width = None
    /\ curr_content_render_height = None
    /\ scroll_offset = 0
    /\ exp_sb_position = 0

\* C18: Close while an entry is expanded clears the whole expanded-view
\* state, sends nothing on the channel, leaves the loop running and the
\* entry list and the table state unchanged; with nothing expanded the
\* expanded-view state is clear, so that the first render after an Expand
\* starts at offset 0 with a fresh wrap.
C18_CloseClears ==
    /\ [][HandleCloseExpanded =>
             /\ ExpCleared'
             /\ UNCHANGED <<items, tableVars, loopVars>>]_vars
    /\ [](exp_id = None => ExpCleared)
    /\ [][(ExpRenders /\ curr_content_render_width = None) =>
             /\ scroll_offset' = 0
             /\ cached_render_content' =
                   WrappedBody(Unwrap(exp_id'),
                               Unwrap(curr_content_render_width'))]_vars

\* Close has just been handled with an entry expanded: the view state is
\* clear, row 1 is still selected, nothing was sent and the loop runs on
C18_Witness ==
    /\ last_op = "close_expanded"
    /\ ExpCleared
    /\ Len(items) >= 2
    /\ tb_selected = Some(1)
    /\ sb_position > 0
    /\ app_event_chan = <<>>
    /\ main_pc = "select"
    /\ ~should_quit

\* the table has a selected row and the row exists in the entry list
RowSelected == IsSome(tb_selected) /\ Unwrap(tb_selected) < Len(items)

\* C19: Expand with nothing expanded expands the entry of the selected row
\* when a row is selected and exists; with no selection or a selection past
\* the end of the list it changes nothing; an entry becomes expanded in no
\* other way.
C19_ExpandNeedsSelection ==
    /\ [][(HandleExpand /\ exp_id = None) =>
             IF RowSelected
             THEN /\ exp_id' = Some(items[Unwrap(tb_selected) + 1].id)
                  /\ UNCHANGED <<items, tableVars, loopVars>>
             ELSE UNCHANGED <<items, tableVars, expVars, loopVars>>]_vars
    /\ [][(exp_id = None /\ exp_id' # None) =>
             (HandleExpand /\ RowSelected)]_vars

\* Expand was handled right after jump-to-last, before a render brought the
\* selection into range: nothing is expanded
C19_Witness ==
    /\ last_op = "expand"
    /\ exp_id = None
    /\ tb_selected = Some(UsizeMax)
    /\ Len(items) >= 2

\* C20: Close with nothing expanded puts Exit into the channel and returns
\* to the loop, and from then on the loop eventually sets should_quit.
C20_CloseExits ==
    /\ [][HandleCloseCollapsed =>
             (app_event_chan' = <<"Exit">> /\ main_pc' = "select")]_vars
    /\ (last_op = "close_collapsed") ~> should_quit

(***************************************************************************)
(* Panics, entry identity and the order of the merged list.                *)
(***************************************************************************)
\* C21: neither the task running App::run nor the task running the join
\* loop ever panics, whatever the feeds hold and whatever is expanded and
\* rendered.
C21_NoPanic ==
    /\ main_pc # "panicked"
    /\ loop_pc # "panicked"

RECURSIVE MergeInSourceOrder(_)
\* the list the join loop builds when the sources 1..k complete and are
\* merged in the order of their numbers
MergeInSourceOrder(k) ==
    IF k = 0 THEN <<>>
    ELSE IF IsFeed(result[k])
         THEN SortByPubDateDesc(Extend(MergeInSourceOrder(k - 1),
                                       FilterMapItems(result[k].items)))
         ELSE MergeInSourceOrder(k - 1)

\* C22: once every source has settled and the join loop has ended, the
\* entry list is the one any completion order gives, in particular the one
\* the order 1, 2, .. of the sources gives.
C22_OrderIndependent ==
    loop_pc = "done" => items = MergeInSourceOrder(nsrc)

\* C23: deriving the id of an entry never fails, and every entry in the
\* store has a non-zero id; a feed with an item whose hash is zero is
\* merged like any other.
C23_IdentityTotal ==
    /\ \A i \in 1..Len(items) : items[i].id # 0
    /\ \A s \in Sources :
          (task[s] = "joined" /\ IsFeed(result[s])) => loop_pc # "panicked"

(***************************************************************************)
(* The lock discipline of the entry list.                                  *)
(***************************************************************************)
\* C24: a frame takes at most one read guard and holds none while the rows
\* are laid out and drawn, so that a merge never waits for the layout of a
\* frame; the write guard is held only while the join loop appends and
\* sorts.
C24_LockDiscipline ==
    /\ rw_readers <= 1
    /\ render_pc \in {"layout", "draw"} => rw_readers = 0
    /\ ~(loop_pc = "lock" /\ rw_readers > 0 /\ render_pc = "draw")
    /\ rw_writer => loop_pc \in {"extend", "sort"}

\* the part of C24 about the writer
C24_WriterOnlyForMerge ==
    /\ rw_readers <= 1
    /\ rw_writer <=> loop_pc \in {"extend", "sort"}

(***************************************************************************)
(* The empty source list.                                                  *)
(***************************************************************************)
NoFetchActivity ==
    /\ \A s \in Sources : task[s] = "none"
    /\ loop_pc = "idle"
    /\ loading_count = 0
    /\ ~is_loading
    /\ items = <<>>
    /\ ~rw_writer

\* C25: with an empty source list no fetch task is started, the loading
\* counter stays 0 and the widget shows the "no sources" screen from then
\* on; the screen is shown only for an empty source list.
C25_NoSources ==
    /\ []((feed_started /\ nsrc = 0) => (show_help /\ NoFetchActivity))
    /\ [](show_help => (feed_started /\ nsrc = 0))
    /\ []((feed_started /\ nsrc > 0) => ~show_help)
    /\ [][show_help => show_help']_vars

C25_Witness == feed_started /\ nsrc = 0 /\ show_help /\ NoFetchActivity

(***************************************************************************)
(* A source that never completes.                                          *)
(***************************************************************************)
\* the fetch of source s has not delivered a result
Hung(s) == task[s] \in {"running", "aborted"}

StoreHasEntriesOf(s) ==
    \A e \in Range(ValidEntries(result[s].items)) :
       Count(items, e) >= Count(ValidEntries(result[s].items), e)

\* what a hung source may and may not hold up: the counter stays above zero
\* and no lock is held once the join loop has nothing left to merge
C26_HungHoldsNoLock ==
    /\ (\E s \in 1..nsrc : task[s] = "running") => is_loading
    /\ LoopAtRest => ~rw_writer
    /\ rw_writer => loop_pc \in {"extend", "sort"}

\* C26: while a source hangs, the loading counter stays above zero and
\* nothing else is held up: no lock is held once the join loop has merged
\* what completed, and the valid entries of every source that did complete
\* with a decoded feed are in the store for the renderer.
C26_HungSourceDelaysOnlyCounter ==
    /\ C26_HungHoldsNoLock
    /\ (LoopAtRest /\ \E h \in 1..nsrc : Hung(h)) =>
          \A s \in 1..nsrc :
             (Settled(s) /\ IsFeed(result[s])) => StoreHasEntriesOf(s)

(***************************************************************************)
(* The terminal at the end of the program.                                 *)
(***************************************************************************)
MainEnded == main_pc \in {"exit_ok", "exit_err", "aborted"}

\* C27: however main ends (normal quit, a panic, a failed later set-up
\* step, an error out of the run loop), raw mode is off and the alternate
\* screen is left.
C27_TerminalRestored == MainEnded => (~raw_mode /\ ~alt_screen)

\* the ends of main after which the terminal is restored: the normal quit
\* and the panic
C27_RestoredOnQuitAndPanic ==
    main_pc \in {"exit_ok", "aborted"} => (~raw_mode /\ ~alt_screen)

(***************************************************************************)
(* The source list.                                                        *)
(***************************************************************************)
\* t is an absolute URL: the scheme, then a host of letters
IsAbsoluteUrl(t) ==
    /\ t # <<>>
    /\ Head(t) = "https://"
    /\ Len(t) >= 2
    /\ t[2] \in {"e", "E"}
    /\ \A i \in 2..Len(t) : (\A j \in 2..i : t[j] # "/") => t[i] \in {"e", "E"}

\* the texts a and b name the same URL: equal up to the case of the host
\* letters and an empty path
SameUrl(a, b) ==
    LET canon(t) ==
           LET h == UpToSlash(Tail(t))
           IN <<[i \in 1..Len(h) |-> IF h[i] = "E" THEN "e" ELSE h[i]],
                IF Len(t) = Len(h) + 1 THEN <<"/">>
                ELSE SubSeq(t, Len(h) + 2, Len(t))>>
    IN canon(a) = canon(b)

QualifyingLines(content) ==
    SelectSeq([i \in 1..Len(StrLines(content)) |-> Trim(StrLines(content)[i])],
              IsAbsoluteUrl)

\* C28: the source list has one URL for every line of the feeds file that,
\* trimmed, is non-empty and an absolute URL, in file order, and nothing
\* else; an unreadable file gives the empty list.
C28_SourceList ==
    last_op = "read_feeds_file" =>
       IF feeds_file.readable
       THEN LET q == QualifyingLines(feeds_file.content)
            IN /\ Len(feed_urls) = Len(q)
               /\ \A i \in 1..Len(q) : SameUrl(feed_urls[i], q[i])
       ELSE feed_urls = <<>>

C28_Witness ==
    /\ last_op = "read_feeds_file"
    /\ feeds_file.readable
    /\ StrLines(feeds_file.content) = <<LineBlank, LineUrl, LineNotUrl>>
    /\ feed_urls = <<LineUrl>>

C28_WitnessNormalised ==
    /\ last_op = "read_feeds_file"
    /\ StrLines(feeds_file.content) = <<LinePadded, LineEmpty, LineUrl>>
    /\ feed_urls = <<<<"https://", "e", "/">>, LineUrl>>

C28_WitnessUnreadable ==
    /\ last_op = "read_feeds_file"
    /\ ~feeds_file.readable
    /\ feed_urls = <<>>

(***************************************************************************)
(* The cumulative-height table.                                            *)
(***************************************************************************)
BottomMargin(i, n) == IF i = n THEN 0 ELSE 1

\* the sum over the rows 1..i of row height plus bottom margin
RECURSIVE SumRows(_, _, _)
SumRows(its, w, i) ==
    IF i = 0 THEN 0
    ELSE SumRows(its, w, i - 1) + draw_row(its[i], w)
            + BottomMargin(i, Len(its))

CumTableOf(cum, its, w, content_length) ==
    /\ Len(cum) = Len(its)
    /\ \A i \in 1..Len(its) : cum[i] = SumRows(its, w, i)
    /\ \A i \in 1..(Len(cum) - 1) : cum[i] <= cum[i + 1]
    /\ its # <<>> => cum[Len(cum)] = content_length
    /\ its = <<>> => content_length = 0

\* C29: a render of the table view leaves a cumulative-height table with
\* one element per entry, element i being the sum over the rows up to i of
\* row height plus bottom margin (1, and 0 for the last row); it is
\* non-decreasing and its last element is the scrollbar content length.
C29_CumulativeHeights ==
    [][\A w \in AreaWidths :
          RenderTable(w) =>
             CumTableOf(tb_cum_row_heights', items, w, sb_content_length')]_vars

C29_Witness ==
    /\ last_op = "render_table"
    /\ Len(items) = 4
    /\ Len(tb_cum_row_heights) = 4
    /\ tb_cum_row_heights[1] < tb_cum_row_heights[4]
    /\ tb_cum_row_heights[4] = sb_content_length

(***************************************************************************)
(* The routing of Scroll commands.                                         *)
(***************************************************************************)
ScrollCommand ==
    \E delta \in ScrollDeltas : HandleScrollFeed(delta) \/ HandleScrollExp(delta)

\* C30: a Scroll command with an entry expanded changes only the scroll
\* offset and scrollbar of the expanded view; with none expanded it changes
\* only the table selection and table scrollbar; it never changes the
\* entry list or which entry is expanded.
C30_ScrollRouting ==
    [][ScrollCommand =>
          /\ UNCHANGED <<items, exp_id>>
          /\ IF IsSome(exp_id)
             THEN /\ UNCHANGED tableVars
                  /\ UNCHANGED <<cached_render_content,
                                 curr_content_render_width,
                                 curr_content_render_height>>
                  /\ exp_sb_position' = scroll_offset'
             ELSE /\ UNCHANGED expVars
                  /\ UNCHANGED <<tb_cum_row_heights, sb_content_length>>]_vars

C30_Witness ==
    /\ last_op = "scroll"
    /\ IsSome(exp_id)
    /\ scroll_offset > 0
    /\ exp_sb_position = scroll_offset
    /\ tb_selected = Position(items, Unwrap(exp_id))

C30_WitnessCollapsed ==
    /\ last_op = "scroll_feed"
    /\ ~IsSome(exp_id)
    /\ tb_selected = Some(1)
    /\ sb_position > 0

(***************************************************************************)
(* The rate of coalescable events.                                         *)
(***************************************************************************)
\* this step returns a coalescable event
EmitsCoalescable ==
    /\ Len(emitted') = Len(emitted) + 1
    /\ IsUpDownKey(emitted'[Len(emitted')])

\* this step is the flush of the pending event at the end of the
\* EventStream
EndOfStreamFlush ==
    poll_pc = "loop" /\ inner = <<>> /\ inner_ended /\ IsSome(pending_event)

\* the timer started at the last emission has run its full delay: the poll
\* finds it completed, or an earlier poll found it completed and removed it
TimerExpired == TimerReady \/ (timer = None /\ can_emit)

\* C31: a coalescable event is returned only when the timer started at the
\* previous coalescable emission has run its full delay, except for the
\* flush of the pending event at the end of the EventStream; every other
\* coalescable emission starts a timer of the full delay, and a timer is
\* removed only once it has completed.
C31_RateBound ==
    /\ [][(EmitsCoalescable /\ ~EndOfStreamFlush) =>
             /\ EmittedCoalescable # {} => TimerExpired
             /\ timer' = Some(DelayTicks)
             /\ can_emit' = FALSE]_vars
    /\ [][(EmitsCoalescable /\ EndOfStreamFlush) => timer' = timer]_vars
    /\ [][(IsSome(timer) /\ timer' # timer) =>
             \/ TimerReady
             \/ Tick /\ timer' = Some(Unwrap(timer) - 1)]_vars
    /\ [](can_emit <=> timer = None)

\* two Up/Down keys were returned one after the other, the second by the
\* poll that read it, after the timer of the first had completed and had
\* been removed
C31_Witness ==
    /\ Len(emitted) = 2
    /\ IsUpDownKey(emitted[1])
    /\ IsUpDownKey(emitted[2])
    /\ emitted[2].id = 2
    /\ last_coal_read = Some(emitted[2])
    /\ ret = Ready(Some(emitted[2]))
    /\ timer = Some(DelayTicks)
    /\ ~can_emit
    /\ ~inner_ended

\* the end of the EventStream flushed the pending event while the timer of
\* the previous emission was still running
C31_WitnessEndFlush ==
    /\ Len(emitted) = 2
    /\ IsUpDownKey(emitted[1])
    /\ IsUpDownKey(emitted[2])
    /\ inner_ended
    /\ ret = Ready(Some(emitted[2]))
    /\ IsSome(timer)
    /\ Unwrap(timer) > 0

(***************************************************************************)
(* The select! loop and the exit channel.                                  *)
(***************************************************************************)
\* C32: the handler of every input command returns to the select! loop:
\* the task running App::run is never left waiting in
\* app_event_tx.send for room in the exit channel.
C32_HandlerReturns == main_pc # "sending"

(***************************************************************************)
(* The merge and the loading counter.                                      *)
(***************************************************************************)
DecodedSourcesStored ==
    \A s \in 1..nsrc :
       (Settled(s) /\ IsFeed(result[s])) => StoreHasEntriesOf(s)

\* C33: the loading counter of a started widget is zero only when the
\* valid entries of every decoded source are in the store; a decrement
\* comes after the merge of the source it counts, and the store does not
\* change while the counter is zero.
C33_MergeBeforeDecrement ==
    /\ []((feed_started /\ loading_count = 0) => DecodedSourcesStored)
    /\ [][loading_count' < loading_count =>
             \A s \in 1..nsrc :
                (task[s] = "joined" /\ IsFeed(result[s])) =>
                   StoreHasEntriesOf(s)]_vars
    /\ [][loading_count = 0 => items' = items]_vars

\* two decoded sources were merged and the counter has reached zero
C33_Witness ==
    /\ feed_started
    /\ nsrc = 2
    /\ loading_count = 0
    /\ \A s \in 1..2 : task[s] = "joined" /\ IsFeed(result[s])
    /\ result[1] # result[2]
    /\ Len(items) >= 3
    /\ loop_pc \in {"join", "done"}

(***************************************************************************)
(* Expand and the frame on the screen.                                     *)
(***************************************************************************)
\* the last frame was the table with a highlighted row, and the selection
\* has not moved from that row since
FrameSelectionCurrent ==
    /\ IsSome(shown)
    /\ exp_id = None
    /\ tb_selected = Some(Unwrap(shown).row)

\* C34: Expand, with the selection still on the row the last frame
\* highlighted, expands the entry that frame showed in that row, whatever
\* was merged into the list since the frame was drawn.
C34_ExpandOpensShown ==
    [][(HandleExpand /\ FrameSelectionCurrent) =>
          exp_id' = Some(Unwrap(shown).id)]_vars

\* Expand with no merge since the frame: the entry of the highlighted row
C34_ExpandWithoutMerge ==
    [][(HandleExpand /\ FrameSelectionCurrent /\ last_op # "merge"
          /\ HighlightedRow(items, tb_selected) = shown) =>
          exp_id' = Some(Unwrap(shown).id)]_vars

=============================================================================
